---- MODULE Spec2Model ----
(***************************************************************************)
(* A model of pkg/encapsulation/kuberouter.go: the KubeRouter              *)
(* encapsulator, its background link watcher goroutine and the callers of  *)
(* its methods.                                                            *)
(*                                                                         *)
(* Goroutines are interleaved at every access to shared state (the iface   *)
(* field, the mutex mu, the channels ch and done).  The netlink library    *)
(* is the environment: LinkSubscribe either fails or yields a stream of    *)
(* link updates offered on the unbuffered channel ch, and LinkByName       *)
(* returns an index, a LinkNotFoundError or another error.                 *)
(***************************************************************************)
EXTENDS Integers, Sequences, FiniteSets, TLC

\* The well-known device (kuberouter.go:26) and one device with another name.
kubeRouterDeviceName == "kube-bridge"
OtherDeviceName == "eth0"

\* Bounds of the model.
MaxIndex == 2       \* interface indices range over 1..MaxIndex
MaxInits == 2       \* calls of Init over the life of the instance
MaxFairInits == 1   \* the same, in the fair behaviours and with accessor calls

\* The reconciler: its main thread makes the lifecycle calls (Init, CleanUp),
\* and every thread calls the accessors.
Main == "main"
Callers == {Main, "reader"}
\* One watcher goroutine can be started by each Init call.
Watchers == {"w" \o ToString(n) : n \in 1..MaxInits}
Indices == 1..MaxIndex
Strategies == {"never", "always"}

\* A link update as the watcher sees it: lu.Attrs().Name, lu.Attrs().Index.
\* The well-known device is seen with every index, the other device with one.
LinkUpdate ==
    [name : {kubeRouterDeviceName}, index : Indices]
        \cup [name : {OtherDeviceName}, index : {MaxIndex}]
NoUpdate == [name |-> "", index |-> 0]

NoCaller == "none"
\* The last return of a lifecycle method: the method and its error ("panic"
\* when the call panicked instead of returning).
NoReturn == [op |-> "none", err |-> "nil"]

\* Addresses and subnets (net.IP, *net.IPNet) handed to Gw, Rules and Set.
IPs == {"10.0.0.0", "10.4.0.1"}
Subnets == [IP : IPs, Mask : {16}]
NoSubnet == [IP |-> "", Mask |-> 0]
\* The last return of an accessor: the method, the subnet it was given, and
\* the value (Gw, Set, Strategy) or the rules (Rules) it returned.
NoOut == [op |-> "none", arg |-> NoSubnet, val |-> "", rules |-> <<>>]

VARIABLES
    iface,      \* KubeRouter.iface
    strategy,   \* KubeRouter.strategy
    done,       \* KubeRouter.done: "open" or "closed"
    mu,         \* KubeRouter.mu: the goroutine holding it, or NoCaller
    pc,         \* pc[c]: where caller c is inside a method
    i,          \* i[c]: Init's local i, the index found by LinkByName
    err,        \* err[c]: Init's local err, of LinkSubscribe and then LinkByName
    ret,        \* the last return of Init or CleanUp
    wpc,        \* wpc[w]: where watcher goroutine w is
    lu,         \* lu[w]: the watcher's local lu
    inits,      \* number of Init calls made so far
    initBudget, \* number of Init calls the reconciler makes at most
    last,       \* index of the last kube-bridge update last on ch, 0 if none
    out,        \* the last return of Gw, Rules, Set or Strategy
    panicked    \* the process died of a panic

vars == <<iface, strategy, done, mu, pc, i, err, ret, wpc, lu, inits,
          initBudget, last, out, panicked>>

callerVars == <<pc, i, err, ret>>
watcherVars == <<wpc, lu>>

----------------------------------------------------------------------------
\* NewKubeRouter: iface is zero, both channels are open, the mutex is free.
Constructed ==
    /\ iface = 0
    /\ strategy \in Strategies
    /\ done = "open"
    /\ mu = NoCaller
    /\ pc = [c \in Callers |-> "idle"]
    /\ i = [c \in Callers |-> 0]
    /\ err = [c \in Callers |-> "nil"]
    /\ ret = NoReturn
    /\ wpc = [w \in Watchers |-> "none"]
    /\ lu = [w \in Watchers |-> NoUpdate]
    /\ inits = 0
    /\ last = 0
    /\ out = NoOut
    /\ panicked = FALSE

Init == Constructed /\ initBudget = MaxInits

----------------------------------------------------------------------------
\* Helpers.

Return(op, e) == ret' = [op |-> op, err |-> e]
Goto(c, label) == pc' = [pc EXCEPT ![c] = label]

\* What netlink.LinkByName can yield: a link, LinkNotFoundError, another error.
LookupResults ==
    [i : Indices, err : {"nil"}] \cup [i : {0}, err : {"LinkNotFoundError", "other"}]

\* The watcher goroutines are numbered in the order of their go statements.
NextWatcher ==
    "w" \o ToString(Cardinality({x \in Watchers : wpc[x] # "none"}) + 1)

\* A subscription feeds ch once LinkSubscribe has succeeded.
Subscribed ==
    \E w \in Watchers : wpc[w] # "none"

\* The goroutines that are about to write iface, with the value they write.
PendingWrites ==
    {lu[w].index : w \in {x \in Watchers : wpc[x] = "write"}}
        \cup {i[c] : c \in {x \in Callers : pc[x] = "Init_write"}}

----------------------------------------------------------------------------
\* KubeRouter.Init, kuberouter.go:63-93.

\* What netlink.LinkSubscribe can yield: nil or an error.
SubscribeResults == {"nil", "failed"}

\* An Init that does not return on a failed subscription.
AfterSubscribeNoReturn(c, e) ==
    /\ \E w \in Watchers :
        /\ wpc[w] = "none"
        /\ w = NextWatcher
        /\ wpc' = [wpc EXCEPT ![w] = "select"]
    /\ Goto(c, "Init_lookup")
    /\ UNCHANGED ret

\* What Init does with the result e of LinkSubscribe: on an error it returns
\* (lines 64-66); otherwise the go statement (lines 67-81) starts one more
\* watcher goroutine, at its select, and Init goes on to the lookup.
AfterSubscribe(c, e) ==
    IF e # "nil"
        THEN /\ Return("Init", "SubscriptionError")
             /\ UNCHANGED <<pc, wpc>>
        ELSE /\ \E w \in Watchers :
                /\ wpc[w] = "none"
                /\ w = NextWatcher
                /\ wpc' = [wpc EXCEPT ![w] = "select"]
             /\ Goto(c, "Init_lookup")
             /\ UNCHANGED ret

\* Init is entered and calls netlink.LinkSubscribe(f.ch, f.done).
InitSubscribe(c) ==
    /\ ~panicked
    /\ c = Main
    /\ pc[c] = "idle"
    /\ inits < initBudget
    /\ inits' = inits + 1
    /\ \E e \in SubscribeResults :
        /\ err' = [err EXCEPT ![c] = e]
        /\ AfterSubscribe(c, e)
    /\ UNCHANGED <<iface, strategy, done, mu, i, lu, initBudget, out, last,
                   panicked>>

\* An Init without the check for LinkNotFoundError: not-found is an error.
AfterLookupNotFoundFails(c, r) ==
    IF r.err # "nil"
        THEN Return("Init", "QueryError") /\ Goto(c, "idle")
    ELSE Goto(c, "Init_lock") /\ UNCHANGED ret

\* An Init without the check of err: a failed lookup goes on to the store.
AfterLookupIgnoresError(c, r) ==
    IF r.err = "LinkNotFoundError"
        THEN Return("Init", "nil") /\ Goto(c, "idle")
    ELSE Goto(c, "Init_lock") /\ UNCHANGED ret

\* What Init does with the result r of LinkByName (lines 83-88).
AfterLookup(c, r) ==
    IF r.err = "LinkNotFoundError"
        THEN Return("Init", "nil") /\ Goto(c, "idle")
    ELSE IF r.err # "nil"
        THEN Return("Init", "QueryError") /\ Goto(c, "idle")
    ELSE Goto(c, "Init_lock") /\ UNCHANGED ret

\* i, err := netlink.LinkByName(kubeRouterDeviceName) and the two checks of err.
InitLookup(c) ==
    /\ ~panicked
    /\ pc[c] = "Init_lookup"
    /\ \E r \in LookupResults :
        /\ i' = [i EXCEPT ![c] = r.i]
        /\ err' = [err EXCEPT ![c] = r.err]
        /\ AfterLookup(c, r)
    /\ UNCHANGED <<iface, strategy, done, mu, watcherVars, inits, initBudget, out,
                   last, panicked>>

\* f.mu.Lock() (line 89)
InitLock(c) ==
    /\ ~panicked
    /\ pc[c] = "Init_lock"
    /\ mu = NoCaller
    /\ mu' = c
    /\ Goto(c, "Init_write")
    /\ UNCHANGED <<iface, strategy, done, i, err, ret, watcherVars, inits,
                   initBudget, out, last, panicked>>

\* An Init that stores an index that no lookup has returned.
InitStoreOther(c) ==
    /\ ~panicked
    /\ pc[c] = "Init_write"
    /\ iface' = MaxIndex + 1
    /\ mu' = NoCaller
    /\ Goto(c, "idle")
    /\ Return("Init", "nil")
    /\ i' = [i EXCEPT ![c] = 0]
    /\ UNCHANGED <<err, strategy, done, watcherVars, inits, initBudget, out,
                   last, panicked>>

\* f.iface = i.Attrs().Index; f.mu.Unlock(); return nil (lines 90-92).  With
\* the return the local i is gone.
InitStore(c) ==
    /\ ~panicked
    /\ pc[c] = "Init_write"
    /\ iface' = i[c]
    /\ mu' = NoCaller
    /\ Goto(c, "idle")
    /\ Return("Init", "nil")
    /\ i' = [i EXCEPT ![c] = 0]
    /\ UNCHANGED <<err, strategy, done, watcherVars, inits, initBudget, out,
                   last, panicked>>

----------------------------------------------------------------------------
\* KubeRouter.CleanUp, kuberouter.go:47-50.  close(f.done) of a closed
\* channel panics.
CleanUp(c) ==
    /\ ~panicked
    /\ c = Main
    /\ pc[c] = "idle"
    /\ IF done = "open"
        THEN /\ done' = "closed"
             /\ Return("CleanUp", "nil")
             /\ UNCHANGED panicked
        ELSE /\ panicked' = TRUE
             /\ Return("CleanUp", "panic")
             /\ UNCHANGED done
    /\ UNCHANGED <<iface, strategy, mu, pc, i, err, watcherVars, inits,
                   initBudget, out, last>>

----------------------------------------------------------------------------
\* KubeRouter.Index, kuberouter.go:58-60: return f.iface, with no lock taken.

IndexCall(c) ==
    /\ ~panicked
    /\ pc[c] = "idle"
    /\ Goto(c, "Index_read")
    /\ UNCHANGED <<iface, strategy, done, mu, i, err, ret, watcherVars, inits,
                   initBudget, out, last, panicked>>

\* An Index that answers with a fixed index.
IndexFixed == {1}

\* The values the unsynchronised read of f.iface can yield: the value in
\* memory or, if a write is racing with it (PendingWrites), the value being
\* written.
Index == {iface} \cup PendingWrites

\* return f.iface: the read yields one of the values of Index; the value
\* returned is not kept in the state.
IndexRead(c) ==
    /\ ~panicked
    /\ pc[c] = "Index_read"
    /\ Goto(c, "idle")
    /\ UNCHANGED <<iface, strategy, done, mu, i, err, ret, watcherVars, inits,
                   initBudget, out, last, panicked>>

----------------------------------------------------------------------------
\* The accessors without state of their own, kuberouter.go:53-55 and 96-108.

\* Everything but out: what an accessor must leave alone.
instance == <<iface, strategy, done, mu, pc, i, err, ret, wpc, lu, inits,
              initBudget, last, panicked>>

\* Lists of subnets handed to Rules.
SubnetLists == {<<>>} \cup {<<s>> : s \in Subnets}

\* A Gw that answers with the node's address.
GwNode(nodeIP, peerIP, subnet) == nodeIP

\* return subnet.IP (line 54)
Gw(nodeIP, peerIP, subnet) == subnet.IP

\* A Rules with one rule for each subnet.
RulesPerSubnet(subnets) == [k \in 1..Len(subnets) |-> "rule"]

\* return nil (line 97): no rules
Rules(subnets) == <<>>

\* return nil (line 102): no error
Set(subnet) == "nil"

\* A Strategy that answers with a fixed strategy.
StrategyFixed == "never"

\* return f.strategy (line 107)
Strategy == strategy

GwCall(c) ==
    /\ ~panicked
    /\ pc[c] = "idle"
    /\ \E nodeIP \in IPs, peerIP \in IPs, subnet \in Subnets :
        out' = [op |-> "Gw", arg |-> subnet,
                val |-> Gw(nodeIP, peerIP, subnet), rules |-> <<>>]
    /\ UNCHANGED instance

RulesCall(c) ==
    /\ ~panicked
    /\ pc[c] = "idle"
    /\ \E subnets \in SubnetLists :
        out' = [op |-> "Rules", arg |-> NoSubnet, val |-> "",
                rules |-> Rules(subnets)]
    /\ UNCHANGED instance

SetCall(c) ==
    /\ ~panicked
    /\ pc[c] = "idle"
    /\ \E subnet \in Subnets :
        out' = [op |-> "Set", arg |-> subnet, val |-> Set(subnet),
                rules |-> <<>>]
    /\ UNCHANGED instance

StrategyCall(c) ==
    /\ ~panicked
    /\ pc[c] = "idle"
    /\ out' = [op |-> "Strategy", arg |-> NoSubnet, val |-> Strategy,
               rules |-> <<>>]
    /\ UNCHANGED instance

----------------------------------------------------------------------------
\* The watcher goroutine, kuberouter.go:67-81.

\* A test of the name that lets every update through.
NameMatchesAny(u) == u.name \in {kubeRouterDeviceName, OtherDeviceName}

\* lu.Attrs().Name == kubeRouterDeviceName (line 72)
NameMatches(u) == u.name = kubeRouterDeviceName

\* A subscription that a failed lookup of Init has ended.
WRecvUnlessFailed(w, e) ==
    /\ ~panicked
    /\ wpc[w] = "select"
    /\ Subscribed
    /\ err[Main] # "other"
    /\ last' = IF e.name = kubeRouterDeviceName THEN e.index ELSE last
    /\ lu' = [lu EXCEPT ![w] = e]
    /\ wpc' = [wpc EXCEPT ![w] = "test"]
    /\ UNCHANGED <<iface, strategy, done, mu, callerVars, inits, initBudget, out,
                   panicked>>

\* case lu = <-f.ch (line 71): the subscription hands update e to watcher w.
WRecv(w, e) ==
    /\ ~panicked
    /\ wpc[w] = "select"
    /\ Subscribed
    /\ last' = IF e.name = kubeRouterDeviceName THEN e.index ELSE last
    /\ lu' = [lu EXCEPT ![w] = e]
    /\ wpc' = [wpc EXCEPT ![w] = "test"]
    /\ UNCHANGED <<iface, strategy, done, mu, callerVars, inits, initBudget, out,
                   panicked>>

\* A done case that goes round the loop again instead of returning.
WDoneContinue(w) ==
    /\ ~panicked
    /\ wpc[w] = "select"
    /\ done = "closed"
    /\ UNCHANGED vars

\* case <-f.done: return (lines 77-78)
WDone(w) ==
    /\ ~panicked
    /\ wpc[w] = "select"
    /\ done = "closed"
    /\ wpc' = [wpc EXCEPT ![w] = "exited"]
    /\ UNCHANGED <<iface, strategy, done, mu, callerVars, lu, inits,
                   initBudget, out, last, panicked>>

\* Back at the select, lu is dead: it is overwritten before it is read again.
Forget(w) == lu' = [lu EXCEPT ![w] = NoUpdate]

\* if lu.Attrs().Name == kubeRouterDeviceName (line 72)
WTest(w) ==
    /\ ~panicked
    /\ wpc[w] = "test"
    /\ IF NameMatches(lu[w])
        THEN /\ wpc' = [wpc EXCEPT ![w] = "lock"]
             /\ UNCHANGED lu
        ELSE /\ wpc' = [wpc EXCEPT ![w] = "select"]
             /\ Forget(w)
    /\ UNCHANGED <<iface, strategy, done, mu, callerVars, inits, initBudget, out,
                   last, panicked>>

\* f.mu.Lock() (line 73)
WLock(w) ==
    /\ ~panicked
    /\ wpc[w] = "lock"
    /\ mu = NoCaller
    /\ mu' = w
    /\ wpc' = [wpc EXCEPT ![w] = "write"]
    /\ UNCHANGED <<iface, strategy, done, callerVars, lu, inits, initBudget, out,
                   last, panicked>>

\* A store that forgets to unlock.
WStoreKeepsLock(w) ==
    /\ ~panicked
    /\ wpc[w] = "write"
    /\ iface' = lu[w].index
    /\ wpc' = [wpc EXCEPT ![w] = "select"]
    /\ Forget(w)
    /\ UNCHANGED <<mu, strategy, done, callerVars, inits, initBudget, out, last,
                   panicked>>

\* A store that forgets the assignment to iface.
WStoreNothing(w) ==
    /\ ~panicked
    /\ wpc[w] = "write"
    /\ mu' = NoCaller
    /\ wpc' = [wpc EXCEPT ![w] = "select"]
    /\ Forget(w)
    /\ UNCHANGED <<iface, strategy, done, callerVars, inits, initBudget, out,
                   last, panicked>>

\* f.iface = lu.Attrs().Index; f.mu.Unlock() (lines 74-75), and back to
\* the select
WStore(w) ==
    /\ ~panicked
    /\ wpc[w] = "write"
    /\ iface' = lu[w].index
    /\ mu' = NoCaller
    /\ wpc' = [wpc EXCEPT ![w] = "select"]
    /\ Forget(w)
    /\ UNCHANGED <<strategy, done, callerVars, inits, initBudget, out, last,
                   panicked>>

----------------------------------------------------------------------------
CallerStep(c) ==
    \/ InitSubscribe(c)
    \/ InitLookup(c)
    \/ InitLock(c)
    \/ InitStore(c)
    \/ CleanUp(c)
    \/ IndexCall(c)
    \/ IndexRead(c)

WatcherStep(w) ==
    \/ \E e \in LinkUpdate : WRecv(w, e)
    \/ WDone(w)
    \/ WTest(w)
    \/ WLock(w)
    \/ WStore(w)

\* A panic ends the process: every action is guarded by ~panicked.
Next ==
    \/ \E c \in Callers : CallerStep(c)
    \/ \E w \in Watchers : WatcherStep(w)

Spec == Init /\ [][Next]_vars

\* The same with the calls of Gw, Rules, Set and Strategy, whose returns are
\* kept in out, for a reconciler that calls Init at most MaxFairInits times.
AccessorStep(c) ==
    \/ GwCall(c)
    \/ RulesCall(c)
    \/ SetCall(c)
    \/ StrategyCall(c)

AccessNext ==
    \/ Next
    \/ \E c \in Callers : AccessorStep(c)

AccessInit == Constructed /\ initBudget = MaxFairInits

AccessSpec == AccessInit /\ [][AccessNext]_vars

\* No step reads or writes the strategy, so the behaviours that differ only
\* in it are alike: the fair behaviours have one strategy, and
\* a reconciler that calls Init at most MaxFairInits times.
FairInit == Constructed /\ strategy = "never" /\ initBudget = MaxFairInits

\* The watchers that such a reconciler can start.
FairWatchers == {"w" \o ToString(n) : n \in 1..MaxFairInits}

\* A goroutine that holds the mutex goes on to release it, and a watcher
\* that can run is scheduled; sync.Mutex does not starve a waiter; and a
\* select with several ready cases picks among them at random, so the done
\* case is not passed over forever.  Nothing is assumed of the callers but
\* that Init, once it holds the mutex, stores and unlocks.
Fairness ==
    /\ WF_vars(InitStore(Main))
    /\ \A w \in FairWatchers : WF_vars(WTest(w) \/ WStore(w))
    /\ \A w \in FairWatchers : SF_vars(WLock(w))
    /\ \A w \in FairWatchers : SF_vars(WDone(w))

FairSpec == FairInit /\ [][Next]_vars /\ Fairness

----------------------------------------------------------------------------
\* Properties.

\* A watcher goroutine that has been started and has not returned.
Live(w) == wpc[w] \in {"select", "test", "lock", "write"}

\* Watcher w holds an update it has received and not yet dealt with.
Holding(w) == wpc[w] \in {"test", "lock", "write"}

\* Watcher w takes a step.
Steps(w) == wpc'[w] # wpc[w]

\* CleanUp was the last lifecycle call and it has returned: every Init call
\* was made, and has returned, before it.
CleanedUp == pc[Main] = "idle" /\ ret = [op |-> "CleanUp", err |-> "nil"]

\* C1: once CleanUp has returned, the watched index can no longer change
\* due to the watcher: no step taken after CleanUp's return changes iface.
C1_NoChangeAfterCleanUp ==
    [][CleanedUp => iface' = iface]_vars

\* C2: a read of the watched index by Index() is never concurrent with a
\* write of it: no caller is at Index's read of iface while the watcher or
\* Init is at its write of iface.
C2_IndexReadNeverRaces ==
    \A c \in Callers : pc[c] = "Index_read" => PendingWrites = {}

\* C3: last-write-wins. Once Init has returned, every delivered update has
\* been consumed, CleanUp has not been called and at least one update naming
\* kube-bridge was delivered, the watched index is the index of the last
\* such update.
C3_LastEventWins ==
    ( /\ inits > 0
      /\ pc[Main] = "idle"
      /\ \A w \in Watchers : ~Holding(w)
      /\ done = "open"
      /\ last # 0 )
        => iface = last

\* C4: CleanUp never fails: no call of CleanUp, a second one included,
\* panics, and every CleanUp returns nil.
C4_CleanUpNeverFails ==
    /\ ~panicked
    /\ ret.op = "CleanUp" => ret.err = "nil"

\* C5: an update whose device name is not kube-bridge never changes the
\* watched index: every step a watcher takes to receive or deal with such
\* an update leaves iface as it was.
C5_OtherDeviceNeverChangesIndex ==
    [][\A w \in Watchers :
        ( /\ Steps(w)
          /\ \/ lu[w].name = OtherDeviceName
             \/ lu'[w].name = OtherDeviceName )
            => iface' = iface]_vars

\* C5's case: a watcher has received an update of the other device whose
\* index differs from the watched index, which an earlier update has set.
C5_Witness ==
    \E w \in Watchers :
        /\ wpc[w] = "test"
        /\ lu[w].name = OtherDeviceName
        /\ iface # 0
        /\ iface # lu[w].index
        /\ last = iface

\* The instance is Watching: Init has returned and CleanUp has not been called.
Watching == inits > 0 /\ pc[Main] = "idle" /\ done = "open"

\* Watcher w has just received the update of kube-bridge with index n.
Received(w, n) ==
    wpc[w] = "test" /\ lu[w] = [name |-> kubeRouterDeviceName, index |-> n]

\* C6: if, while the instance is Watching, an update naming kube-bridge with
\* index n is delivered, then, unless a later update of kube-bridge with
\* another index or a CleanUp follows, the watched index eventually is n.
C6_EventEventuallyVisible ==
    \A n \in Indices :
        (Watching /\ last = n /\ \E w \in Watchers : Received(w, n))
            ~> (iface = n \/ last # n \/ done = "closed")

\* C6's case: the one Init found no link, so the watched index, which is the
\* index of the last update, was stored by the watcher.
C6_Witness ==
    /\ Watching
    /\ inits = 1
    /\ err[Main] = "LinkNotFoundError"
    /\ last # 0
    /\ iface = last
    /\ \A w \in Watchers : ~Holding(w)

\* The step in which Init's call of LinkByName returns, with error e.
LookupYields(e) ==
    pc[Main] = "Init_lookup" /\ pc'[Main] # "Init_lookup" /\ err'[Main] = e

\* C7: when the lookup reports not-found, Init returns nil and does not write
\* the watched index; and after the only Init has returned so, the watched
\* index is 0 as long as no update naming kube-bridge has been delivered.
C7_NotFoundIsSuccess ==
    /\ [][LookupYields("LinkNotFoundError")
            => /\ pc'[Main] = "idle"
               /\ ret' = [op |-> "Init", err |-> "nil"]
               /\ iface' = iface]_vars
    /\ []( ( /\ inits = 1
             /\ pc[Main] = "idle"
             /\ err[Main] = "LinkNotFoundError"
             /\ last = 0 )
            => iface = 0 )

\* C7's case: Init has returned nil on not-found with its watcher running,
\* and the watcher has received an update of the other device.
C7_Witness ==
    /\ inits = 1
    /\ pc[Main] = "idle"
    /\ err[Main] = "LinkNotFoundError"
    /\ ret = [op |-> "Init", err |-> "nil"]
    /\ last = 0
    /\ \E w \in Watchers : wpc[w] = "test"

\* C8: when the subscription cannot be established, Init returns an error
\* in that same step, starts no watcher, does no lookup and leaves the
\* watched index as it was.
C8_SubscribeFailureReturns ==
    /\ [][(inits' # inits /\ err'[Main] = "failed")
            => /\ pc'[Main] = "idle"
               /\ ret' = [op |-> "Init", err |-> "SubscriptionError"]
               /\ wpc' = wpc
               /\ iface' = iface]_vars
    /\ [](err[Main] = "failed" => pc[Main] \in {"idle", "Index_read"})

\* C8's case: the first Init has failed to subscribe.
C8_Witness ==
    /\ inits = 1
    /\ err[Main] = "failed"
    /\ ret = [op |-> "Init", err |-> "SubscriptionError"]
    /\ \A w \in Watchers : wpc[w] = "none"

\* The step in which Init returns.
InitReturns ==
    /\ pc'[Main] = "idle"
    /\ pc[Main] \in {"Init_lookup", "Init_write"} \/ inits' # inits

\* C9: when the lookup fails for another reason than not-found, Init returns
\* an error without writing the watched index; when it succeeds, Init stores
\* the index found while it holds the lock and returns nil; and Init returns
\* an error only when the subscription or the lookup has failed.
C9_LookupFailureAndSuccess ==
    /\ [][LookupYields("other")
            => /\ pc'[Main] = "idle"
               /\ ret' = [op |-> "Init", err |-> "QueryError"]
               /\ iface' = iface]_vars
    /\ [][LookupYields("nil")
            => /\ pc'[Main] = "Init_lock"
               /\ i'[Main] \in Indices
               /\ iface' = iface]_vars
    /\ [](pc[Main] \in {"Init_lock", "Init_write"} => err[Main] = "nil")
    /\ [](pc[Main] = "Init_write" => mu = Main)
    /\ [][(pc[Main] = "Init_write" /\ pc'[Main] # "Init_write")
            => /\ iface' = i[Main]
               /\ mu' = NoCaller
               /\ pc'[Main] = "idle"
               /\ ret' = [op |-> "Init", err |-> "nil"]]_vars
    /\ [][(InitReturns /\ ret'.err # "nil")
            => err'[Main] \in {"failed", "other"}]_vars

\* C9's case: an Init whose lookup succeeded has stored an index that differs
\* from the one the watcher had stored, and a later Init's lookup has failed.
C9_Witness ==
    /\ inits = 2
    /\ pc[Main] = "idle"
    /\ err[Main] = "other"
    /\ ret = [op |-> "Init", err |-> "QueryError"]
    /\ last # 0
    /\ iface \notin {0, last}

----------------------------------------------------------------------------
\* The goroutines, and where a goroutine is when it holds the mutex.
Goroutines == Callers \cup Watchers
AtWrite(p) == IF p \in Callers THEN pc[p] = "Init_write" ELSE wpc[p] = "write"

\* C11: callers of Index never block, and the mutex is held only for one
\* write of iface: a goroutine holds it only at its write, the write can
\* always be taken (the holder waits for nothing), and the holder's next
\* step releases the mutex.  A process that has died of a panic has no
\* goroutines left.
C11_LockHeldForOneWrite ==
    /\ [](~panicked =>
            \A c \in Callers : pc[c] = "Index_read" => ENABLED IndexRead(c))
    /\ [](\A p \in Goroutines : mu = p => AtWrite(p))
    /\ [](~panicked => \A c \in Callers : mu = c => ENABLED InitStore(c))
    /\ [](~panicked => \A w \in Watchers : mu = w => ENABLED WStore(w))
    /\ [][\A c \in Callers : (mu = c /\ pc'[c] # pc[c]) => mu' = NoCaller]_vars
    /\ [][\A w \in Watchers : (mu = w /\ Steps(w)) => mu' = NoCaller]_vars

\* C11's case: a caller is at Index's read while a watcher holds the mutex
\* at its write and Init waits for the mutex.
C11_Witness ==
    /\ pc["reader"] = "Index_read"
    /\ pc[Main] = "Init_lock"
    /\ \E w \in Watchers : mu = w /\ wpc[w] = "write"

\* C12: in every reachable state at most one watcher goroutine is live.
C12_AtMostOneWatcher ==
    Cardinality({w \in Watchers : Live(w)}) <= 1

\* C13: before any Init, whatever accessors and CleanUp have been called,
\* Index() returns 0.
C13_IndexZeroBeforeInit ==
    inits = 0 => Index = {0}

\* C13's case: before any Init, after calls of accessors and of CleanUp, a
\* caller is at Index's read.
C13_Witness ==
    /\ inits = 0
    /\ pc["reader"] = "Index_read"
    /\ out.op = "Set"
    /\ done = "closed"

\* The step in which an accessor named in ops returns.
Returns(ops) == out'.op \in ops /\ out' # out

\* C14: Gw returns the IP of the subnet it is given, whatever the node and
\* peer addresses and whatever the instance is doing, and leaves the
\* instance as it was.
C14_GwReturnsSubnetIP ==
    /\ [](out.op = "Gw" => out.val = out.arg.IP)
    /\ [][Returns({"Gw"}) => UNCHANGED instance]_vars

\* C14's case: Gw has returned the address of a subnet while a watcher held
\* an update and Init was waiting for the mutex.
C14_Witness ==
    /\ out.op = "Gw"
    /\ out.val = "10.0.0.0"
    /\ pc[Main] = "Init_lock"
    /\ \E w \in Watchers : wpc[w] = "write"

\* C15: Rules returns no rules and Set returns no error, in every state,
\* and both leave the watched index, the strategy, the watcher and done (the
\* whole instance) as they were.
C15_RulesAndSetAreNoOps ==
    /\ [](out.op = "Rules" => out.rules = <<>>)
    /\ [](out.op = "Set" => out.val = "nil")
    /\ [][Returns({"Rules", "Set"}) => UNCHANGED instance]_vars

\* C15's case: Rules has returned after CleanUp, with the watcher gone and
\* an index stored.
C15_Witness ==
    /\ out.op = "Rules"
    /\ done = "closed"
    /\ iface # 0
    /\ \E w \in Watchers : wpc[w] = "exited"

\* C16: no step changes the stored strategy, and Strategy() returns it.
C16_StrategyIsConstructionValue ==
    /\ [][strategy' = strategy]_vars
    /\ [](out.op = "Strategy" => out.val = strategy)
    /\ [][Returns({"Strategy"}) => UNCHANGED instance]_vars

\* C16's case: an instance constructed with the strategy "always" has been
\* through Init, updates and CleanUp, and Strategy has returned.
C16_Witness ==
    /\ out.op = "Strategy"
    /\ out.val = "always"
    /\ done = "closed"
    /\ iface # 0
    /\ \E w \in Watchers : wpc[w] = "exited"

\* Watcher w stores the update it holds.
Stores(w) == wpc[w] = "write" /\ wpc'[w] # "write"

\* Watcher v holds an update of kube-bridge that it has not stored yet.
Unapplied(v) == Holding(v) /\ NameMatches(lu[v])

\* Watcher w is the only one to hold the index of the update of kube-bridge
\* that was delivered last: every unapplied update that another watcher
\* holds was delivered before that one.
HoldsLast(w) ==
    /\ lu[w].index = last
    /\ \A v \in Watchers \ {w} : Unapplied(v) => lu[v].index # last

\* C17: the updates of kube-bridge are applied in the order of their
\* delivery: when the index of the update delivered last is stored, no update
\* delivered before it is still to be applied.
C17_AppliedInDeliveryOrder ==
    [][\A w \in Watchers :
        (Stores(w) /\ HoldsLast(w))
            => \A v \in Watchers \ {w} : ~Unapplied(v)]_vars

\* An Init that was invoked after CleanUp had returned is under way.
InitAfterCleanUp ==
    /\ pc[Main] \in {"Init_lookup", "Init_lock", "Init_write"}
    /\ ret = [op |-> "CleanUp", err |-> "nil"]

\* The watcher that was started last: by the Init that is under way.
Newest == "w" \o ToString(Cardinality({x \in Watchers : wpc[x] # "none"}))

\* C18: an Init invoked after CleanUp does not result in a watcher that
\* applies updates to the watched index: while such an Init is under way,
\* the watcher it has started stores nothing.
C18_NoWatcherAfterCleanUp ==
    [][InitAfterCleanUp => ~Stores(Newest)]_vars

\* C19: the watched index is 0 until it is stored, and every value stored
\* is the index that Init's successful lookup has returned or the index of
\* a delivered update naming kube-bridge: iface changes only in a store of
\* Init or of a watcher, Init's i is set only by a successful lookup, and a
\* watcher's lu only by the receipt of an update.
C19_Provenance ==
    /\ [][iface' # iface =>
            \/ \E c \in Callers :
                pc[c] = "Init_write" /\ pc'[c] = "idle" /\ iface' = i[c]
            \/ \E w \in Watchers : Stores(w) /\ iface' = lu[w].index]_vars
    /\ [](\A c \in Callers :
            pc[c] \in {"Init_lock", "Init_write"}
                => i[c] \in Indices /\ err[c] = "nil")
    /\ [][\A c \in Callers :
            i'[c] # i[c] =>
                \/ pc[c] = "Init_lookup" /\ err'[c] = "nil" /\ i'[c] \in Indices
                \/ i'[c] = 0]_vars
    /\ [](\A w \in Watchers :
            wpc[w] \in {"lock", "write"}
                => /\ lu[w] \in LinkUpdate
                   /\ lu[w].name = kubeRouterDeviceName)
    /\ [][\A w \in Watchers :
            lu'[w] # lu[w] =>
                \/ wpc[w] = "select" /\ wpc'[w] = "test" /\ lu'[w] \in LinkUpdate
                \/ lu'[w] = NoUpdate]_vars

\* C19's case: Init's lookup has stored an index that differs from the index
\* of the last update, which a watcher had stored.
C19_Witness ==
    /\ pc[Main] = "idle"
    /\ ret = [op |-> "Init", err |-> "nil"]
    /\ err[Main] = "nil"
    /\ last # 0
    /\ iface \notin {0, last}
    /\ \A w \in Watchers : ~Holding(w)

\* Init has returned the error of a failed lookup, and CleanUp has not been
\* called.
FailedWatching == Watching /\ err[Main] = "other"

\* C20: a failed lookup is not rolled back: the step in which the lookup
\* fails leaves the watchers as they are, with one live; after Init has
\* returned the error a watcher is live and the subscription still hands it
\* every update; and an update of kube-bridge with index n delivered then is
\* eventually visible, unless a later update or a CleanUp follows.
C20_LookupFailureNotRolledBack ==
    /\ [][(LookupYields("other") /\ done = "open")
            => /\ wpc' = wpc
               /\ \E w \in Watchers : wpc'[w] \in {"select", "test", "lock", "write"}]_vars
    /\ [](FailedWatching => \E w \in Watchers : Live(w))
    /\ [](\A w \in Watchers :
            (FailedWatching /\ wpc[w] = "select")
                => \A e \in LinkUpdate : ENABLED WRecv(w, e))
    /\ \A n \in Indices :
        (FailedWatching /\ last = n /\ \E w \in Watchers : Received(w, n))
            ~> (iface = n \/ last # n \/ done = "closed")

\* C20's case: after Init has returned the error of a failed lookup, the
\* watcher has stored the index of an update.
C20_Witness ==
    /\ FailedWatching
    /\ ret = [op |-> "Init", err |-> "QueryError"]
    /\ last # 0
    /\ iface = last
    /\ \A w \in Watchers : ~Holding(w)

====
